---- MODULE Spec2Model ----
(***************************************************************************)
(* Model of the batch document-to-text pipeline of paddle-NF:              *)
(*   - NorthflankOCRClient.process_pdf / save_results / print_summary      *)
(*     (src/client_test_northflank.py),                                    *)
(*   - NorthflankOCRService.process_pdf (src/ocr_service.py),              *)
(*   - the image resize step of extract_text (src/app.py) and of           *)
(*     extract_from_image (src/ocr_service.py), and their token count,     *)
(*   - NorthflankOCRClient.calculate_metrics,                              *)
(*   - the handlers of the HTTP service (src/app.py) and healthcheck.py.   *)
(*                                                                         *)
(* Python dicts are TLA+ records whose DOMAIN is the dict's key set, so a  *)
(* missing key (KeyError) is a field that is not in DOMAIN.                *)
(***************************************************************************)
EXTENDS Integers, Sequences, FiniteSets, TLC

\* ---------------------------------------------------------------- bounds
\* largest page count of a document
MaxPages == 11
\* largest number of pages of one run whose rendering or OCR request fails
MaxFail == 1
\* largest image edge and largest resize cap of the normalizer inputs
MaxDim == 6
MaxCap == 4
\* longest reference / hypothesis string of the scorer inputs
MaxStrLen == 3
\* longest token sequence of a prompt or of a backend output
MaxSeqLen == 8
\* largest number of files of one /ocr/batch upload, and of requests answered
MaxFiles == 2
MaxRequests == 2

\* ------------------------------------------------------ program constants
\* client_test_northflank.py:156 and ocr_service.py:102: "% 10 == 0"
ProgressEvery == 10
\* default dpi / max_tokens of process_pdf
DefaultDpi == 150
DefaultMaxTokens == 512

\* ------------------------------------------------------------ input sets
PageCounts == {0, 1, 3, MaxPages}
StartPages == {-1, 0, 1, MaxPages + 1}
\* num_pages: None, or an integer
None == [some |-> FALSE, val |-> 0]
Some(n) == [some |-> TRUE, val |-> n]
NumPagesArgs == {None} \cup {Some(n) : n \in {-1, 0, 1, 3, ProgressEvery}}
Dpis == {0, DefaultDpi}
MaxTokensArgs == {0, DefaultMaxTokens}
\* processing_time values reported by the service for a page
Latencies == {1, 2}
\* the text the service extracts from a page
PageText == <<"a", "b">>
\* ground truth files: none (or empty), or two lines as readlines() returns them
GroundTruthFiles == {<<>>, << <<"a", "b", "\n">>, <<"b", "\n">> >>}

VARIABLES
    caller,       \* "client": NorthflankOCRClient, "service": NorthflankOCRService, "none"
    total_pages,  \* pdf.page_count
    start_page, num_pages, dpi, max_tokens,   \* arguments of process_pdf
    io_bound,     \* ocr_service.py: is the global name io bound (module run as __main__)
    pc,           \* "idle", "loop", "save", "done" (returned), "raised" (exception left process_pdf)
    end_page,
    page_num,     \* loop variable of range(start_page, end_page)
    results,      \* list of dicts
    all_text,     \* list of page blocks
    visited,      \* page indices handed to pdf[...] / get_pixmap, in order
    temp_files,   \* temp_page_<n>.png files present in output_dir
    summary,      \* what print_summary printed
    raised,       \* the exception that left process_pdf, "" if none
    ground_truth_file,   \* lines of the file at ground_truth_path, <<>> if there is none
    ground_truth_lines,  \* self.ground_truth_lines
    progress,     \* the progress lines printed by the client
    cache_releases,      \* torch.cuda.empty_cache() calls of the service
    image_size, resize_max, new_size, norm_pc,  \* the resize step
    reference, hypothesis, metrics, met_pc,     \* calculate_metrics
    input_ids_len, outputs_len, tokens_generated, tok_pc,   \* the token count
    model,        \* app.py: is the global model set (not None)
    request,      \* the HTTP request being answered
    response,     \* the answer to it
    backend_calls,    \* number of requests that reached the model
    requests_served,  \* number of requests answered
    exit_code     \* of healthcheck.py, -1 before it ran

vars == <<caller, total_pages, start_page, num_pages, dpi, max_tokens, io_bound,
          pc, end_page, page_num, results, all_text, visited, temp_files,
          summary, raised, ground_truth_file, ground_truth_lines, progress,
          cache_releases, image_size, resize_max, new_size, norm_pc,
          reference, hypothesis, metrics, met_pc,
          input_ids_len, outputs_len, tokens_generated, tok_pc,
          model, request, response, backend_calls, requests_served, exit_code>>

runVars == <<caller, total_pages, start_page, num_pages, dpi, max_tokens, io_bound,
             pc, end_page, page_num, results, all_text, visited, temp_files,
             summary, raised, ground_truth_file, ground_truth_lines, progress,
             cache_releases>>
gtVars == <<ground_truth_file, ground_truth_lines>>
normVars == <<image_size, resize_max, new_size, norm_pc>>
metricVars == <<reference, hypothesis, metrics, met_pc>>
tokenVars == <<input_ids_len, outputs_len, tokens_generated, tok_pc>>
httpVars == <<model, request, response, backend_calls, requests_served, exit_code>>
auxVars == <<metricVars, tokenVars, httpVars>>

\* ----------------------------------------------------------------- helpers
Min(a, b) == IF a <= b THEN a ELSE b
Max(a, b) == IF a >= b THEN a ELSE b

RECURSIVE SumTimes(_)
\* df['processing_time'].sum(): NaN (key absent) is skipped
SumTimes(rs) ==
    IF rs = <<>> THEN 0
    ELSE (IF "processing_time" \in DOMAIN Head(rs) THEN Head(rs).processing_time ELSE 0)
         + SumTimes(Tail(rs))

\* number of non-NaN entries of a column
CountKey(rs, k) == Cardinality({i \in DOMAIN rs : k \in DOMAIN rs[i]})

\* number of records appended by the except branch
Failures(rs) == CountKey(rs, "error")

\* number of pages whose rendering or OCR request failed
EnvFailures(rs) ==
    Cardinality({i \in DOMAIN rs : "error" \in DOMAIN rs[i]
                                   /\ rs[i].error \in {"render", "OCR failed"}})

\* end_page of both process_pdf: "start_page + num_pages if num_pages else total_pages",
\* then min(end_page, total_pages); num_pages = 0 is falsy like None
EndPage(start, num, total) ==
    Min(IF num.some /\ num.val # 0 THEN start + num.val ELSE total, total)

\* the dict appended by the except branch of the client
ErrorRecord(p, msg) == [page_num |-> p + 1, error |-> msg]

\* the /ocr/extract response with page_num added
PageResult(p, t) == [page_num |-> p + 1, extracted_text |-> PageText, processing_time |-> t]

\* f"=== Page {page_num + 1} ===\n{result['extracted_text']}\n"
PageBlock(p, txt) == [page |-> p + 1, text |-> txt]

\* ------------------------------------------------ calculate_metrics (scorer)
\* strings are sequences of characters
Alphabet == {"a", "b"}
Strings == UNION {[1..n -> Alphabet] : n \in 0..MaxStrLen}
HelloWorld == <<"h", "e", "l", "l", "o", " ", "w", "o", "r", "l", "d">>
HelloWord == <<"h", "e", "l", "l", "o", " ", "w", "o", "r", "d">>

Min3(a, b, c) == Min(a, Min(b, c))

\* Levenshtein.distance: the dynamic program over rows; row[j + 1] is the
\* distance between the consumed prefix of the reference and hyp[1..j]
RECURSIVE BuildRow(_, _, _, _)
BuildRow(prev, c, hyp, row) ==
    IF Len(row) = Len(hyp) + 1 THEN row
    ELSE LET j == Len(row)
         IN  BuildRow(prev, c, hyp,
                      Append(row, Min3(prev[j + 1] + 1,
                                       row[j] + 1,
                                       prev[j] + (IF c = hyp[j] THEN 0 ELSE 1))))

RECURSIVE LevRows(_, _, _, _)
LevRows(ref, hyp, i, row) ==
    IF i > Len(ref) THEN row[Len(hyp) + 1]
    ELSE LevRows(ref, hyp, i + 1, BuildRow(row, ref[i], hyp, <<row[1] + 1>>))

Levenshtein(ref, hyp) == LevRows(ref, hyp, 1, [j \in 1..(Len(hyp) + 1) |-> j - 1])

\* a Python float quotient n / d is kept as the pair <<n, d>>
Quot(n, d) == <<n, d>>
\* 1.0 - q
OneMinus(q) == <<q[2] - q[1], q[2]>>

CalculateMetricsCerByHyp(ref, hyp) ==
    LET distance == Levenshtein(ref, hyp)
        longest == Max(Len(ref), Len(hyp))
    IN  [cer |-> IF Len(hyp) > 0 THEN Quot(distance, Len(hyp)) ELSE Quot(0, 1),
         accuracy |-> IF longest > 0 THEN OneMinus(Quot(distance, longest)) ELSE Quot(1, 1),
         edit_distance |-> distance,
         ref_length |-> Len(ref),
         hyp_length |-> Len(hyp)]

CalculateMetricsAccByRef(ref, hyp) ==
    LET distance == Levenshtein(ref, hyp)
    IN  [cer |-> IF Len(ref) > 0 THEN Quot(distance, Len(ref)) ELSE Quot(0, 1),
         accuracy |-> IF Len(ref) > 0 THEN OneMinus(Quot(distance, Len(ref))) ELSE Quot(1, 1),
         edit_distance |-> distance,
         ref_length |-> Len(ref),
         hyp_length |-> Len(hyp)]

\* lines 178-188
CalculateMetrics(ref, hyp) ==
    LET distance == Levenshtein(ref, hyp)
        longest == Max(Len(ref), Len(hyp))
    IN  [cer |-> IF Len(ref) > 0 THEN Quot(distance, Len(ref)) ELSE Quot(0, 1),
         accuracy |-> IF longest > 0 THEN OneMinus(Quot(distance, longest)) ELSE Quot(1, 1),
         edit_distance |-> distance,
         ref_length |-> Len(ref),
         hyp_length |-> Len(hyp)]

\* ------------------------------------------------------------------- Init
NormIdle ==
    /\ image_size = <<1, 1>>
    /\ resize_max = 1
    /\ new_size = <<1, 1>>
    /\ norm_pc = "idle"

MetricIdle ==
    /\ reference = <<>>
    /\ hypothesis = <<>>
    /\ metrics = [computed |-> FALSE]
    /\ met_pc = "idle"

TokenIdle ==
    /\ input_ids_len = 0
    /\ outputs_len = 0
    /\ tokens_generated = 0
    /\ tok_pc = "idle"

HttpIdle ==
    /\ model = FALSE
    /\ request = [endpoint |-> "none"]
    /\ response = [status |-> 0]
    /\ backend_calls = 0
    /\ requests_served = 0
    /\ exit_code = -1

AuxIdle == MetricIdle /\ TokenIdle /\ HttpIdle

Init ==
    /\ caller \in {"client", "service"}
    /\ total_pages \in PageCounts
    /\ start_page \in StartPages
    /\ num_pages \in NumPagesArgs
    /\ dpi \in Dpis
    /\ max_tokens \in MaxTokensArgs
    /\ io_bound \in BOOLEAN
    \* only the service module reads the global io; its process_pdf has no max_tokens
    /\ (caller = "client" => io_bound)
    /\ (caller = "service" => max_tokens = DefaultMaxTokens)
    \* the longest documents are run from page 0 or 1 with the default dpi and max_tokens
    /\ (total_pages = MaxPages =>
            start_page \in {0, 1} /\ dpi = DefaultDpi /\ max_tokens = DefaultMaxTokens)
    /\ pc = "idle"
    /\ end_page = 0
    /\ page_num = 0
    /\ results = <<>>
    /\ all_text = <<>>
    /\ visited = <<>>
    /\ temp_files = {}
    /\ summary = [printed |-> FALSE]
    /\ raised = ""
    /\ ground_truth_file \in GroundTruthFiles
    \* ground truth comes with the client and with the shorter documents
    /\ (caller = "service" \/ total_pages = MaxPages => ground_truth_file = <<>>)
    /\ ground_truth_lines = <<>>
    /\ progress = <<>>
    /\ cache_releases = <<>>
    /\ NormIdle
    /\ AuxIdle

\* --------------------------------------------- NorthflankOCRClient.process_pdf
\* load_ground_truth (lines 64-69): readlines() of the file when there is one
LoadGroundTruth(lines, file) == IF file # <<>> THEN file ELSE lines

\* lines 100-122: open the document, compute the range, start the loop
Open ==
    /\ caller = "client"
    /\ pc = "idle"
    /\ end_page' = EndPage(start_page, num_pages, total_pages)
    /\ page_num' = start_page
    /\ results' = <<>>
    /\ all_text' = <<>>
    /\ ground_truth_lines' = LoadGroundTruth(ground_truth_lines, ground_truth_file)
    /\ pc' = "loop"
    /\ UNCHANGED <<caller, total_pages, start_page, num_pages, dpi, max_tokens, io_bound,
                   visited, temp_files, summary, raised>>
    /\ UNCHANGED <<ground_truth_file, progress, cache_releases>>
    /\ UNCHANGED normVars
    /\ UNCHANGED auxVars

InLoop == pc = "loop" /\ page_num < end_page

\* pdf[p] can yield a page: the document has pages and p is below the page
\* count (PyMuPDF counts a negative index from the end; other versions raise)
Renderable(p) == total_pages > 0 /\ p < total_pages

\* lines 127-133 raise (pdf[page_num], get_pixmap or pix.save): except branch
PageRenderFails ==
    /\ caller = "client"
    /\ InLoop
    /\ (Renderable(page_num) => EnvFailures(results) < MaxFail)
    /\ visited' = Append(visited, page_num)
    /\ results' = Append(results, ErrorRecord(page_num, "render"))
    /\ page_num' = page_num + 1
    /\ UNCHANGED <<caller, total_pages, start_page, num_pages, dpi, max_tokens, io_bound,
                   pc, end_page, all_text, temp_files, summary, raised>>
    /\ UNCHANGED <<gtVars, progress, cache_releases>>
    /\ UNCHANGED normVars
    /\ UNCHANGED auxVars

\* line 136 raises (status code is not 200, timeout): except branch;
\* the temp image saved at line 133 is not unlinked
PageOcrFails ==
    /\ caller = "client"
    /\ InLoop
    /\ Renderable(page_num)
    /\ EnvFailures(results) < MaxFail
    /\ visited' = Append(visited, page_num)
    /\ temp_files' = temp_files \cup {page_num}
    /\ results' = Append(results, ErrorRecord(page_num, "OCR failed"))
    /\ page_num' = page_num + 1
    /\ UNCHANGED <<caller, total_pages, start_page, num_pages, dpi, max_tokens, io_bound,
                   pc, end_page, all_text, summary, raised>>
    /\ UNCHANGED <<gtVars, progress, cache_releases>>
    /\ UNCHANGED normVars
    /\ UNCHANGED auxVars

\* lines 127-160 without a render or OCR failure.  The progress update of
\* lines 156-160 reads r['processing_time'] of every record: a record of the
\* except branch has no such key, the KeyError is caught at line 162 and a
\* second record is appended for the page.
ProgressDue(p, start) == (p - start + 1) % ProgressEvery = 0

AfterAppend(rs, p, start) ==
    IF ProgressDue(p, start) /\ CountKey(rs, "processing_time") < Len(rs)
    THEN Append(rs, ErrorRecord(p, "'processing_time'"))
    ELSE rs

\* lines 145-146: the test "page_num < len(self.ground_truth_lines)" and the
\* list index; a negative index counts from the end and raises IndexError
\* when it reaches before the first line
HasGroundTruth(p, lines) == p < Len(lines)
GtIndexError(p, lines) == p < 0 /\ -p > Len(lines)
PyIndex(lines, p) == IF p >= 0 THEN lines[p + 1] ELSE lines[Len(lines) + p + 1]

WithMetricsSwapped(result, p, lines) ==
    IF HasGroundTruth(p, lines)
    THEN result @@ CalculateMetrics(result.extracted_text, PyIndex(lines, p))
    ELSE result

\* lines 145-148: result.update(metrics)
WithMetrics(result, p, lines) ==
    IF HasGroundTruth(p, lines)
    THEN result @@ CalculateMetrics(PyIndex(lines, p), result.extracted_text)
    ELSE result

\* lines 156-160: the progress line, printed when every record has a
\* processing_time; rs is the record list with the page's record appended
ProgressLine(rs, p, start, last) ==
    [processed |-> p - start + 1,
     avg_time |-> Quot(SumTimes(rs), Len(rs)),
     eta |-> Quot((last - p - 1) * SumTimes(rs), Len(rs))]

AfterProgress(pr, rs, p, start, last) ==
    IF ProgressDue(p, start) /\ CountKey(rs, "processing_time") = Len(rs)
    THEN Append(pr, ProgressLine(rs, p, start, last))
    ELSE pr

PageSucceeds ==
    /\ caller = "client"
    /\ InLoop
    /\ Renderable(page_num)
    /\ visited' = Append(visited, page_num)
    /\ all_text' = Append(all_text, PageBlock(page_num, PageText))
    /\ IF HasGroundTruth(page_num, ground_truth_lines)
          /\ GtIndexError(page_num, ground_truth_lines)
       THEN \* line 146 raises IndexError: except branch, the temp image stays
            /\ results' = Append(results, ErrorRecord(page_num, "list index out of range"))
            /\ temp_files' = temp_files \cup {page_num}
            /\ UNCHANGED progress
       ELSE \E t \in Latencies :
              LET appended ==
                    Append(results,
                           WithMetrics(PageResult(page_num, t), page_num, ground_truth_lines))
              IN  /\ results' = AfterAppend(appended, page_num, start_page)
                  /\ progress' = AfterProgress(progress, appended, page_num, start_page,
                                               end_page)
                  /\ temp_files' = temp_files \ {page_num}
    /\ page_num' = page_num + 1
    /\ UNCHANGED <<caller, total_pages, start_page, num_pages, dpi, max_tokens, io_bound,
                   pc, end_page, summary, raised>>
    /\ UNCHANGED <<gtVars, cache_releases>>
    /\ UNCHANGED normVars
    /\ UNCHANGED auxVars

\* lines 169-174 and save_results/print_summary (190-234):
\* df['processing_time'] raises KeyError when no record has the key
LoopDone == pc = "loop" /\ page_num >= end_page

Summary(rs) ==
    [printed |-> TRUE,
     total_pages |-> Len(rs),
     total_time |-> SumTimes(rs),
     avg_time |-> <<SumTimes(rs), CountKey(rs, "processing_time")>>]

SaveResults ==
    /\ caller = "client"
    /\ LoopDone
    /\ CountKey(results, "processing_time") > 0
    /\ summary' = Summary(results)
    /\ pc' = "done"
    /\ UNCHANGED <<caller, total_pages, start_page, num_pages, dpi, max_tokens, io_bound,
                   end_page, page_num, results, all_text, visited, temp_files, raised>>
    /\ UNCHANGED <<gtVars, progress, cache_releases>>
    /\ UNCHANGED normVars
    /\ UNCHANGED auxVars

SaveResultsRaises ==
    /\ caller = "client"
    /\ LoopDone
    /\ CountKey(results, "processing_time") = 0
    /\ raised' = "KeyError"
    /\ pc' = "raised"
    /\ UNCHANGED <<caller, total_pages, start_page, num_pages, dpi, max_tokens, io_bound,
                   end_page, page_num, results, all_text, visited, temp_files, summary>>
    /\ UNCHANGED <<gtVars, progress, cache_releases>>
    /\ UNCHANGED normVars
    /\ UNCHANGED auxVars

\* -------------------------------------------- NorthflankOCRService.process_pdf
\* lines 77-85
SvcOpen ==
    /\ caller = "service"
    /\ pc = "idle"
    /\ end_page' = EndPage(start_page, num_pages, total_pages)
    /\ page_num' = start_page
    /\ results' = <<>>
    /\ pc' = "loop"
    /\ UNCHANGED <<caller, total_pages, start_page, num_pages, dpi, max_tokens, io_bound,
                   all_text, visited, temp_files, summary, raised>>
    /\ UNCHANGED <<gtVars, progress, cache_releases>>
    /\ UNCHANGED normVars
    /\ UNCHANGED auxVars

\* extract_from_image's dict with page_num added (line 97)
SvcResult(p, t) == [page_num |-> p + 1, text |-> "text", time |-> t]

\* lines 87-103 complete: needs the name io (line 93) to be bound
SvcPage ==
    /\ caller = "service"
    /\ InLoop
    /\ Renderable(page_num)
    /\ io_bound
    /\ \E t \in Latencies : results' = Append(results, SvcResult(page_num, t))
    /\ visited' = Append(visited, page_num)
    \* lines 101-103: torch.cuda.empty_cache()
    /\ cache_releases' = IF ProgressDue(page_num, start_page)
                         THEN Append(cache_releases, page_num - start_page + 1)
                         ELSE cache_releases
    /\ page_num' = page_num + 1
    /\ UNCHANGED <<caller, total_pages, start_page, num_pages, dpi, max_tokens, io_bound,
                   pc, end_page, all_text, temp_files, summary, raised>>
    /\ UNCHANGED <<gtVars, progress>>
    /\ UNCHANGED normVars
    /\ UNCHANGED auxVars

\* lines 87-96 raise: the loop has no try, the exception leaves process_pdf
\* and the local list results is never returned.  With io unbound line 93
\* raises NameError on the first page, after the page was rendered.
SvcPageRaises ==
    /\ caller = "service"
    /\ InLoop
    /\ \E e \in (IF ~Renderable(page_num) THEN {"render"}
                ELSE IF io_bound THEN {"render", "inference"}
                ELSE {"render", "NameError"}) :
         raised' = e
    /\ visited' = Append(visited, page_num)
    /\ pc' = "raised"
    /\ UNCHANGED <<caller, total_pages, start_page, num_pages, dpi, max_tokens, io_bound,
                   end_page, page_num, results, all_text, temp_files, summary>>
    /\ UNCHANGED <<gtVars, progress, cache_releases>>
    /\ UNCHANGED normVars
    /\ UNCHANGED auxVars

\* lines 105-106
SvcReturn ==
    /\ caller = "service"
    /\ LoopDone
    /\ pc' = "done"
    /\ UNCHANGED <<caller, total_pages, start_page, num_pages, dpi, max_tokens, io_bound,
                   end_page, page_num, results, all_text, visited, temp_files, summary,
                   raised>>
    /\ UNCHANGED <<gtVars, progress, cache_releases>>
    /\ UNCHANGED normVars
    /\ UNCHANGED auxVars

Next ==
    \/ Open
    \/ PageRenderFails
    \/ PageOcrFails
    \/ PageSucceeds
    \/ SaveResults
    \/ SaveResultsRaises
    \/ SvcOpen
    \/ SvcPage
    \/ SvcPageRaises
    \/ SvcReturn

Spec == Init /\ [][Next]_vars

\* ------------------------------------------------- the resize step (normalizer)
\* int(image.size[k] * ratio) with ratio = resize_max / max(image.size):
\* int() truncates, so the result is the floor of d * cap / m.  (In double
\* arithmetic the product is exact enough for this for every longest edge
\* below 22; from there on a product whose exact value is an integer can come
\* out just below it, int(22 * (15 / 22)) is 14, and truncate to one less.)
ScaleRounded(d, cap, m) == (2 * d * cap + m) \div (2 * m)

Scale(d, cap, m) == (d * cap) \div m

NeedsResize(size, cap) == Max(size[1], size[2]) > cap

NewSize(size, cap) ==
    <<Scale(size[1], cap, Max(size[1], size[2])),
      Scale(size[2], cap, Max(size[1], size[2]))>>

RunIdle ==
    /\ caller = "none"
    /\ total_pages = 0 /\ start_page = 0 /\ num_pages = None
    /\ dpi = DefaultDpi /\ max_tokens = DefaultMaxTokens /\ io_bound = TRUE
    /\ pc = "idle" /\ end_page = 0 /\ page_num = 0
    /\ results = <<>> /\ all_text = <<>> /\ visited = <<>> /\ temp_files = {}
    /\ summary = [printed |-> FALSE] /\ raised = ""
    /\ ground_truth_file = <<>> /\ ground_truth_lines = <<>>
    /\ progress = <<>> /\ cache_releases = <<>>

InitNorm ==
    /\ RunIdle
    /\ image_size \in (1..MaxDim) \X (1..MaxDim)
    /\ resize_max \in 0..MaxCap
    /\ new_size = image_size
    /\ norm_pc = "idle"
    /\ AuxIdle

\* "if max(image.size) > resize_max" is false: the image is left as it is
ResizeSkip ==
    /\ norm_pc = "idle"
    /\ ~NeedsResize(image_size, resize_max)
    /\ new_size' = image_size
    /\ norm_pc' = "unchanged"
    /\ UNCHANGED <<image_size, resize_max>>
    /\ UNCHANGED runVars
    /\ UNCHANGED auxVars

\* lines 115-117 with a size Image.resize accepts
Resize ==
    /\ norm_pc = "idle"
    /\ NeedsResize(image_size, resize_max)
    /\ NewSize(image_size, resize_max)[1] > 0
    /\ NewSize(image_size, resize_max)[2] > 0
    /\ new_size' = NewSize(image_size, resize_max)
    /\ norm_pc' = "resized"
    /\ UNCHANGED <<image_size, resize_max>>
    /\ UNCHANGED runVars
    /\ UNCHANGED auxVars

\* lines 115-117 with a zero dimension: Image.resize raises ValueError
ResizeRaises ==
    /\ norm_pc = "idle"
    /\ NeedsResize(image_size, resize_max)
    /\ (NewSize(image_size, resize_max)[1] <= 0 \/ NewSize(image_size, resize_max)[2] <= 0)
    /\ new_size' = NewSize(image_size, resize_max)
    /\ norm_pc' = "raised"
    /\ UNCHANGED <<image_size, resize_max>>
    /\ UNCHANGED runVars
    /\ UNCHANGED auxVars

NextNorm ==
    \/ ResizeSkip
    \/ Resize
    \/ ResizeRaises

SpecNorm == InitNorm /\ [][NextNorm]_vars

\* ------------------------------------------------------- calculate_metrics
TokenHttpIdle == TokenIdle /\ HttpIdle

InitMetrics ==
    /\ RunIdle
    /\ NormIdle
    /\ TokenHttpIdle
    /\ \/ reference \in Strings /\ hypothesis \in Strings
       \/ reference = HelloWorld /\ hypothesis = HelloWord
    /\ metrics = [computed |-> FALSE]
    /\ met_pc = "idle"

Score ==
    /\ met_pc = "idle"
    /\ metrics' = CalculateMetrics(reference, hypothesis)
    /\ met_pc' = "done"
    /\ UNCHANGED <<reference, hypothesis>>
    /\ UNCHANGED <<runVars, normVars, tokenVars, httpVars>>

NextMetrics == Score

SpecMetrics == InitMetrics /\ [][NextMetrics]_vars

\* ------------------------------------------------- the token count of a reply
\* the lengths of inputs['input_ids'][0] and of outputs[0]; the backend is
\* free to return a sequence of any length
MetricHttpIdle == MetricIdle /\ HttpIdle

InitTokens ==
    /\ RunIdle
    /\ NormIdle
    /\ MetricHttpIdle
    /\ input_ids_len \in 1..MaxSeqLen
    /\ outputs_len \in 0..MaxSeqLen
    /\ tokens_generated = 0
    /\ tok_pc = "idle"

\* app.py:146 and ocr_service.py:66
TokensGenerated(out_len, in_len) == out_len - in_len

CountTokens ==
    /\ tok_pc = "idle"
    /\ tokens_generated' = TokensGenerated(outputs_len, input_ids_len)
    /\ tok_pc' = "done"
    /\ UNCHANGED <<input_ids_len, outputs_len>>
    /\ UNCHANGED <<runVars, normVars, metricVars, httpVars>>

NextTokens == CountTokens

SpecTokens == InitTokens /\ [][NextTokens]_vars

\* ------------------------------------------------------ the HTTP service (app.py)
\* An uploaded file: its name and what processing it does: "ok" goes through,
\* "bad_image" makes Image.open raise (before the model is used),
\* "backend_error" makes processor / model.generate raise.
FileKinds == {"ok", "bad_image", "backend_error"}
Files == [filename : {"p.png", "q.png"}, kind : FileKinds]
FileLists == UNION {[1..n -> Files] : n \in 0..MaxFiles}

\* does the request for this file reach the model (lines 121-132)
ReachesBackend(file) == file.kind \in {"ok", "backend_error"}

\* raise HTTPException(status_code=503, detail="Model not loaded")
NotLoaded == [status |-> 503, detail |-> "Model not loaded"]

HealthResponseAlwaysHealthy(m) == [status |-> 200, body |-> "healthy"]

\* health (lines 77-82; app_paddleocr.py 72-77)
HealthResponse(m) ==
    IF ~m THEN NotLoaded ELSE [status |-> 200, body |-> "healthy"]

\* extract_text once the model is known to be loaded (lines 107-151;
\* app_paddleocr.py 95-168): the dict returned, or the HTTPException raised
\* by the except branch
ExtractOutcome(file) ==
    IF file.kind = "ok"
    THEN [status |-> 200, extracted_text |-> "text"]
    ELSE [status |-> 500, detail |-> "Error processing image"]

\* extract_text (lines 104-151)
ExtractResponse(m, file) == IF ~m THEN NotLoaded ELSE ExtractOutcome(file)

\* one turn of the loop of batch_extract (lines 176-187); i counts from 0
BatchEntry(i, file) ==
    IF ExtractOutcome(file).status = 200
    THEN [file_index |-> i, filename |-> file.filename,
          extracted_text |-> ExtractOutcome(file).extracted_text]
    ELSE [file_index |-> i, filename |-> file.filename,
          error |-> ExtractOutcome(file).detail]

RECURSIVE BatchLoopStopOnError(_, _, _)
BatchLoopStopOnError(files, i, rs) ==
    IF i >= Len(files) THEN rs
    ELSE IF ExtractOutcome(files[i + 1]).status # 200
         THEN Append(rs, BatchEntry(i, files[i + 1]))
         ELSE BatchLoopStopOnError(files, i + 1, Append(rs, BatchEntry(i, files[i + 1])))

RECURSIVE BatchLoop(_, _, _)
\* for i, file in enumerate(files) (lines 173-187)
BatchLoop(files, i, rs) ==
    IF i >= Len(files) THEN rs
    ELSE BatchLoop(files, i + 1, Append(rs, BatchEntry(i, files[i + 1])))

\* batch_extract (lines 170-196)
BatchResponse(m, files) ==
    IF ~m THEN NotLoaded
    ELSE [status |-> 200, results |-> BatchLoop(files, 0, <<>>), total_files |-> Len(files)]

BackendCallsOf(files) == Cardinality({i \in DOMAIN files : ReachesBackend(files[i])})

InitHttp ==
    /\ RunIdle
    /\ NormIdle
    /\ MetricIdle
    /\ TokenIdle
    /\ HttpIdle

\* load_model (lines 29-63): the startup handler sets the global model
LoadModel ==
    /\ ~model
    /\ model' = TRUE
    /\ UNCHANGED <<request, response, backend_calls, requests_served, exit_code>>
    /\ UNCHANGED <<runVars, normVars, metricVars, tokenVars>>

\* GET /health
Health ==
    /\ requests_served < MaxRequests
    /\ request' = [endpoint |-> "health"]
    /\ response' = HealthResponse(model)
    /\ requests_served' = requests_served + 1
    /\ UNCHANGED <<model, backend_calls, exit_code>>
    /\ UNCHANGED <<runVars, normVars, metricVars, tokenVars>>

\* healthcheck.py: GET /health, exit 0 on status 200, else (also when the
\* request itself fails) exit 1
Healthcheck ==
    /\ requests_served < MaxRequests
    /\ \E reachable \in BOOLEAN :
         IF reachable
         THEN /\ request' = [endpoint |-> "health"]
              /\ response' = HealthResponse(model)
              /\ requests_served' = requests_served + 1
              /\ exit_code' = IF HealthResponse(model).status = 200 THEN 0 ELSE 1
         ELSE /\ exit_code' = 1
              /\ UNCHANGED <<request, response, requests_served>>
    /\ UNCHANGED <<model, backend_calls>>
    /\ UNCHANGED <<runVars, normVars, metricVars, tokenVars>>

\* POST /ocr/extract
Extract ==
    /\ requests_served < MaxRequests
    /\ \E file \in Files :
         /\ request' = [endpoint |-> "extract", file |-> file]
         /\ response' = ExtractResponse(model, file)
         /\ backend_calls' =
               backend_calls + (IF model /\ ReachesBackend(file) THEN 1 ELSE 0)
    /\ requests_served' = requests_served + 1
    /\ UNCHANGED <<model, exit_code>>
    /\ UNCHANGED <<runVars, normVars, metricVars, tokenVars>>

\* POST /ocr/batch
Batch ==
    /\ requests_served < MaxRequests
    /\ \E files \in FileLists :
         /\ request' = [endpoint |-> "batch", files |-> files]
         /\ response' = BatchResponse(model, files)
         /\ backend_calls' = backend_calls + (IF model THEN BackendCallsOf(files) ELSE 0)
    /\ requests_served' = requests_served + 1
    /\ UNCHANGED <<model, exit_code>>
    /\ UNCHANGED <<runVars, normVars, metricVars, tokenVars>>

NextHttp ==
    \/ LoadModel
    \/ Health
    \/ Healthcheck
    \/ Extract
    \/ Batch

SpecHttp == InitHttp /\ [][NextHttp]_vars

\* ======================================================================
\* Properties
\* ======================================================================
Returned == caller = "client" /\ pc = "done"
IsFailed(r) == "error" \in DOMAIN r
IsSuccess(r) == "extracted_text" \in DOMAIN r

\* C1: the record list returned by process_pdf has exactly one record per
\* requested page, with page numbers start_page+1, ..., end_page in
\* increasing order, so its length is end_page - start_page.
C1_OneRecordPerPage ==
    Returned =>
        /\ Len(results) = end_page - start_page
        /\ \A i \in DOMAIN results : results[i].page_num = start_page + i

\* C2: a render or inference failure on a page never aborts the batch: the
\* failure is recorded, the later pages are processed and the accumulated
\* records are returned, so no run that met a page failure ends with an
\* exception leaving process_pdf.
C2_FailureNeverAborts ==
    pc = "raised" =>
        /\ raised \notin {"render", "inference"}
        /\ Failures(results) = 0

\* C3: in the client's record list every record has exactly one of
\* extracted text and error message, and no page has both a successful and a
\* failed record.
C3_SucceededXorFailed ==
    caller = "client" =>
        /\ \A i \in DOMAIN results : IsSuccess(results[i]) # IsFailed(results[i])
        /\ \A i, j \in DOMAIN results :
              results[i].page_num = results[j].page_num
                  => (IsFailed(results[i]) <=> IsFailed(results[j]))

\* C4: the page indices processed are the integers of
\* [start_page, start_page + num_pages) clamped to [0, total_pages] (all
\* pages from start_page when num_pages is omitted), in increasing order,
\* and no index outside [0, total_pages) is rendered.
Clamp(x, lo, hi) == Max(lo, Min(x, hi))
ClaimedFirst == Clamp(start_page, 0, total_pages)
ClaimedEnd ==
    Clamp(IF num_pages.some THEN start_page + num_pages.val ELSE total_pages, 0, total_pages)
ClaimedIndices ==
    [i \in 1..Max(ClaimedEnd - ClaimedFirst, 0) |-> ClaimedFirst + i - 1]

C4_ClampedRange ==
    /\ \A i \in DOMAIN visited : visited[i] \in 0..(total_pages - 1)
    /\ (LoopDone \/ pc = "done") => visited = ClaimedIndices

\* C5: a batch started with an invalid page range, a non-positive dpi or a
\* non-positive max_tokens raises ConfigurationError at batch start: no page
\* is rendered or sent to inference and no record is produced.
InvalidConfig ==
    \/ dpi <= 0
    \/ max_tokens <= 0
    \/ start_page < 0
    \/ start_page > total_pages
    \/ (num_pages.some /\ num_pages.val < 0)

C5_ConfigurationErrorFirst ==
    InvalidConfig =>
        /\ visited = <<>>
        /\ results = <<>>
        /\ (pc # "idle" => pc = "raised" /\ raised = "ConfigurationError")

\* C6: aggregation never fails: for any record list, also one with only
\* failed pages and one with no page, save_results and print_summary
\* complete, with an empty text and a printed summary.
C6_AggregationNeverFails ==
    caller = "client" =>
        /\ pc # "raised"
        /\ (pc = "done" /\ CountKey(results, "extracted_text") = 0
                => all_text = <<>> /\ summary.printed)

\* C7: the summary's time statistics are computed over the records without
\* an error only, while a failed page counts toward the number of pages and
\* toward the number of failures the summary reports.
RECURSIVE SuccessTimes(_)
SuccessTimes(rs) ==
    IF rs = <<>> THEN <<>>
    ELSE (IF IsFailed(Head(rs)) THEN <<>> ELSE <<Head(rs).processing_time>>)
         \o SuccessTimes(Tail(rs))

RECURSIVE SeqSum(_)
SeqSum(q) == IF q = <<>> THEN 0 ELSE Head(q) + SeqSum(Tail(q))

C7_StatsOverSuccessesAndFailureCount ==
    Returned =>
        /\ summary.total_time = SeqSum(SuccessTimes(results))
        /\ summary.avg_time = <<SeqSum(SuccessTimes(results)), Len(SuccessTimes(results))>>
        /\ summary.total_pages = Len(results)
        /\ "failed_pages" \in DOMAIN summary
        /\ summary.failed_pages = Failures(results)

\* C8: the document text has, in increasing page order, one block for each
\* page with a successful record, each once, and no block for a page
\* recorded as failed.
C8_TextOfSuccessfulPagesOnly ==
    Returned =>
        /\ \A i, j \in DOMAIN all_text : i < j => all_text[i].page < all_text[j].page
        /\ {all_text[i].page : i \in DOMAIN all_text}
              = {results[i].page_num : i \in {k \in DOMAIN results : IsSuccess(results[k])}}
        /\ \A i \in DOMAIN all_text : \A k \in DOMAIN results :
              IsFailed(results[k]) => results[k].page_num # all_text[i].page

\* C9 as stated: an image within the cap is unchanged; a larger one gets a
\* longest edge within one pixel of the cap and both dimensions scaled by
\* cap / max(w, h) and rounded to the nearest integer.
LongEdge(size) == Max(size[1], size[2])
Abs(x) == IF x < 0 THEN -x ELSE x
Computed == norm_pc \in {"resized", "raised"}

C9_RoundedToNearest ==
    /\ norm_pc = "unchanged" => new_size = image_size
    /\ norm_pc = "resized" =>
          /\ Abs(LongEdge(new_size) - resize_max) <= 1
          /\ \A k \in 1..2 :
                2 * Abs(new_size[k] * LongEdge(image_size) - image_size[k] * resize_max)
                    <= LongEdge(image_size)

\* C9 amended: an image within the cap is unchanged; for a larger one the
\* computed size has a longest edge of cap or cap - 1 and each dimension is
\* the original scaled by cap / max(w, h) and truncated by int(): never above
\* the exact scaled value and at most one pixel below it.
C9_Truncated ==
    /\ norm_pc = "unchanged" =>
          new_size = image_size /\ LongEdge(image_size) <= resize_max
    /\ Computed =>
          /\ LongEdge(image_size) > resize_max
          /\ Abs(LongEdge(new_size) - resize_max) <= 1
          /\ \A k \in 1..2 :
                /\ new_size[k] * LongEdge(image_size) <= image_size[k] * resize_max
                /\ image_size[k] * resize_max <= (new_size[k] + 1) * LongEdge(image_size)

\* an image was resized and a dimension was truncated where rounding to the
\* nearest integer would have rounded up
C9_Witness ==
    /\ norm_pc = "resized"
    /\ \E k \in 1..2 :
          2 * (image_size[k] * resize_max - new_size[k] * LongEdge(image_size))
              > LongEdge(image_size)

\* C10: for an image with width >= 1 and height >= 1 and a cap >= 1 the
\* computed target size has both dimensions >= 1 and the resize step does
\* not fail.
C10_TargetSizePositive ==
    (image_size[1] >= 1 /\ image_size[2] >= 1 /\ resize_max >= 1) =>
        /\ norm_pc # "raised"
        /\ new_size[1] >= 1 /\ new_size[2] >= 1

\* C11: calculate_metrics returns the Levenshtein distance, the character
\* error rate distance / len(reference) (0 for an empty reference) and the
\* accuracy 1 - distance / max(len(reference), len(hypothesis)) (1 when both
\* are empty) with no division by zero; equal strings give 0, 0 and 1, and
\* 'hello world' against 'hello word' gives 1, 1/11 and 10/11.
RECURSIVE EditDistance(_, _)
\* least number of single-character insertions, deletions and substitutions
EditDistance(a, b) ==
    IF a = <<>> THEN Len(b)
    ELSE IF b = <<>> THEN Len(a)
    ELSE IF Head(a) = Head(b) THEN EditDistance(Tail(a), Tail(b))
    ELSE 1 + Min3(EditDistance(Tail(a), b),
                  EditDistance(a, Tail(b)),
                  EditDistance(Tail(a), Tail(b)))

SameQuot(q, n, d) == q[2] # 0 /\ q[1] * d = n * q[2]
Longest == Max(Len(reference), Len(hypothesis))

C11_Metrics ==
    met_pc = "done" =>
        /\ (Longest <= MaxStrLen
               => metrics.edit_distance = EditDistance(reference, hypothesis))
        /\ IF Len(reference) > 0
           THEN SameQuot(metrics.cer, metrics.edit_distance, Len(reference))
           ELSE SameQuot(metrics.cer, 0, 1)
        /\ IF Longest > 0
           THEN SameQuot(metrics.accuracy, Longest - metrics.edit_distance, Longest)
           ELSE SameQuot(metrics.accuracy, 1, 1)
        /\ (reference = hypothesis =>
               /\ metrics.edit_distance = 0
               /\ SameQuot(metrics.cer, 0, 1)
               /\ SameQuot(metrics.accuracy, 1, 1))
        /\ (reference = HelloWorld /\ hypothesis = HelloWord =>
               /\ metrics.edit_distance = 1
               /\ SameQuot(metrics.cer, 1, 11)
               /\ SameQuot(metrics.accuracy, 10, 11))

\* 'hello world' was scored against 'hello word'
C11_Witness ==
    /\ met_pc = "done"
    /\ reference = HelloWorld
    /\ hypothesis = HelloWord
    /\ metrics.edit_distance = 1

\* C12: the accuracy of the scorer lies in [0, 1] for every reference and
\* hypothesis, also for a hypothesis much longer than the reference that
\* shares no character with it.
C12_AccuracyInUnitInterval ==
    met_pc = "done" =>
        /\ metrics.accuracy[2] > 0
        /\ 0 <= metrics.accuracy[1]
        /\ metrics.accuracy[1] <= metrics.accuracy[2]

\* a non-empty reference was scored against a hypothesis more than twice as
\* long with no character in common
C12_Witness ==
    /\ met_pc = "done"
    /\ Len(reference) >= 1
    /\ Len(hypothesis) > 2 * Len(reference)
    /\ \A i \in DOMAIN reference : \A j \in DOMAIN hypothesis : reference[i] # hypothesis[j]
    /\ metrics.accuracy[1] = 0

\* C13: the token count returned is the generated length minus the prompt
\* length and is never negative: it is 0 when the backend returns a
\* sequence shorter than the prompt.
C13_TokenCountClamped ==
    tok_pc = "done" =>
        /\ tokens_generated >= 0
        /\ tokens_generated = Max(outputs_len - input_ids_len, 0)

\* C14: a request to /health or /ocr/extract made while the model is not
\* loaded is answered 503 without invoking the backend; the model, once
\* loaded, stays loaded and /health then answers 200; /ocr/extract then
\* answers 200 when processing succeeds and 500 with a message when a
\* processing step raises.
Answered == requests_served' = requests_served + 1

C14_StatusCodes ==
    [][/\ (model => model')
       /\ (Answered /\ request'.endpoint \in {"health", "extract"} =>
             /\ (~model => response'.status = 503 /\ backend_calls' = backend_calls)
             /\ (model /\ request'.endpoint = "health" => response'.status = 200)
             /\ (model /\ request'.endpoint = "extract" =>
                   IF request'.file.kind = "ok"
                   THEN response'.status = 200
                   ELSE /\ response'.status = 500
                        /\ "detail" \in DOMAIN response'
                        /\ response'.detail # ""))]_vars

\* with the model loaded, a second request was an /ocr/extract whose
\* processing raised, and it was answered 500
C14_Witness ==
    /\ model
    /\ requests_served = 2
    /\ request.endpoint = "extract"
    /\ request.file.kind = "backend_error"
    /\ response.status = 500
    /\ backend_calls >= 1

\* C17: /ocr/batch with the model loaded returns one entry per uploaded
\* file, in upload order, entry i with file_index i; a file whose extraction
\* fails yields an entry with an error message instead of extracted text and
\* the files after it are processed as they would be alone.
C17_BatchEntryPerFile ==
    (request.endpoint = "batch" /\ response.status = 200) =>
        /\ Len(response.results) = Len(request.files)
        /\ \A i \in DOMAIN response.results :
              LET entry == response.results[i]
                  file == request.files[i]
              IN  /\ entry.file_index = i - 1
                  /\ entry.filename = file.filename
                  /\ IF file.kind = "ok"
                     THEN "extracted_text" \in DOMAIN entry /\ "error" \notin DOMAIN entry
                     ELSE "error" \in DOMAIN entry /\ "extracted_text" \notin DOMAIN entry

\* a batch whose first file failed and whose second file succeeded was answered
C17_Witness ==
    /\ request.endpoint = "batch"
    /\ response.status = 200
    /\ Len(request.files) = 2
    /\ request.files[1].kind # "ok"
    /\ request.files[2].kind = "ok"
    /\ "error" \in DOMAIN response.results[1]
    /\ "extracted_text" \in DOMAIN response.results[2]

\* C15: the periodic step fires after the k-th page of the run for every
\* positive multiple k of ProgressEvery, counted from start_page, and only
\* then; in the client it prints a progress line whose ETA is the number of
\* pages remaining times the mean latency of the pages processed so far,
\* also when an earlier page failed, and it leaves the record list as it
\* is (one record per page processed); in the service it releases the cache.
RECURSIVE TimesOfPagesUpTo(_, _)
TimesOfPagesUpTo(rs, last_num) ==
    IF rs = <<>> THEN <<>>
    ELSE (IF "processing_time" \in DOMAIN Head(rs) /\ Head(rs).page_num <= last_num
          THEN <<Head(rs).processing_time>> ELSE <<>>)
         \o TimesOfPagesUpTo(Tail(rs), last_num)

ExpectedEta(line, k) ==
    LET times == TimesOfPagesUpTo(results, start_page + k)
    IN  SameQuot(line.eta, (end_page - start_page - k) * SeqSum(times), Len(times))

C15_ClientProgress ==
    caller = "client" =>
        /\ Len(progress) = Len(visited) \div ProgressEvery
        /\ \A j \in DOMAIN progress :
              /\ progress[j].processed = j * ProgressEvery
              /\ ExpectedEta(progress[j], j * ProgressEvery)
        /\ Len(results) = Len(visited)

C15_ServiceRelease ==
    caller = "service" =>
        /\ Len(cache_releases) = Len(results) \div ProgressEvery
        /\ \A j \in DOMAIN cache_releases : cache_releases[j] = j * ProgressEvery

C15_PeriodicStep == C15_ClientProgress /\ C15_ServiceRelease

\* C16: a successful record of zero-based page index i carries quality
\* metrics exactly when i is below the number of ground-truth lines, the
\* metrics are those of ground-truth line i (the absolute index, whatever
\* start_page is) against the page's extracted text, and a failed record
\* carries no metrics.
MetricKeys == {"cer", "accuracy", "edit_distance", "ref_length", "hyp_length"}

ScoredAgainst(r, line) ==
    /\ MetricKeys \subseteq DOMAIN r
    /\ r.ref_length = Len(line)
    /\ r.hyp_length = Len(r.extracted_text)
    /\ r.edit_distance = EditDistance(line, r.extracted_text)
    /\ SameQuot(r.cer, r.edit_distance, Len(line))
    /\ SameQuot(r.accuracy,
                Max(Len(line), Len(r.extracted_text)) - r.edit_distance,
                Max(Len(line), Len(r.extracted_text)))

C16_MetricsIffGroundTruth ==
    caller = "client" =>
        \A n \in DOMAIN results :
            LET r == results[n]
                i == r.page_num - 1
            IN  /\ IsFailed(r) => MetricKeys \cap DOMAIN r = {}
                /\ (IsSuccess(r) /\ i >= 0) =>
                      IF i < Len(ground_truth_lines)
                      THEN ScoredAgainst(r, ground_truth_lines[i + 1])
                      ELSE MetricKeys \cap DOMAIN r = {}

\* a run from page index 1 over a two-line ground truth returned: page index
\* 1 carries metrics, page index 2 does not
C16_Witness ==
    /\ Returned
    /\ start_page = 1
    /\ Len(ground_truth_lines) = 2
    /\ \E n \in DOMAIN results :
          results[n].page_num = 2 /\ "cer" \in DOMAIN results[n]
    /\ \E n \in DOMAIN results :
          results[n].page_num = 3 /\ IsSuccess(results[n]) /\ "cer" \notin DOMAIN results[n]

\* C18: when process_pdf returns, no temp_page_<n>.png it created is left in
\* the output directory, for the pages that succeeded and for the pages
\* whose OCR request failed.
C18_NoTempImageLeft == Returned => temp_files = {}
====
